---- MODULE Spec2Model ----
(***************************************************************************)
(* SaaS Analytics API (src/main.py, src/schemas.py): register, login,      *)
(* track_event, analytics_summary, get_current_user, root and /test over   *)
(* a document store with the collections "user" and "event".               *)
(*                                                                         *)
(* Handlers are synchronous FastAPI routes, so requests run concurrently   *)
(* and interleave at their store calls.  A handler with one store call is  *)
(* one action; register has two store calls (find_one at line 83,          *)
(* create_document at line 86) and is two actions.                         *)
(***************************************************************************)
EXTENDS Integers, Sequences, FiniteSets, TLC

VARIABLES
    db,          \* the store handle imported from database: None or a database
    users,       \* collection "user"
    events,      \* collection "event"
    reg,         \* per client: the register request between its check and its insert
    last,        \* the request step taken last: operation, input, calls, response
    registered   \* history: the (email, password) pairs whose register returned 200

vars == <<db, users, events, reg, last, registered>>

----------------------------------------------------------------------------
(* Bounds of the model *)

MaxDocs == 2
NumProcs == 2
NumTypes == 12
MaxExtra == 1

(* Program constants *)

LIMIT == 10

JWT_SECRET == "dev-secret-change-me"
JWT_ALG == "HS256"

----------------------------------------------------------------------------
(* Input domains *)

None == "<None>"

Emails == {"a@x.com", "b@x.com"}
Passwords == {"pw1", "wrong"}
Salts == {"s1", "s2"}
\* issued-at instants read from the clock
Times == {0, 1}
Procs == 1..NumProcs

\* Subjects a token can carry: the emails and the empty string.
Subjects == Emails \cup {""}

\* Python truthiness of an Optional[str]
Truthy(s) == s # None /\ s # ""

----------------------------------------------------------------------------
(* Credential hasher: bcrypt through passlib.  The hash embeds its salt;   *)
(* verify recomputes the hash of the candidate under the embedded salt.    *)

hash_password(password, salt) == "$2b$" \o salt \o "$" \o password

verify_password(password, password_hash) ==
    \E salt \in Salts : password_hash = hash_password(password, salt)

----------------------------------------------------------------------------
(* Tokens: HS256-signed claims.  A signature names the key and the payload *)
(* it was computed over, so a token verifies iff it was signed with the    *)
(* verifier's key over the payload it carries.                             *)

Sign(payload, key, alg) == [key |-> key, alg |-> alg, over |-> payload]

jwt_encode(payload, key, alg) ==
    [kind |-> "jwt", payload |-> payload, sig |-> Sign(payload, key, alg)]

\* mutant: the subject goes into a claim other than sub
create_token_noclaim(email, now) ==
    jwt_encode([hasSub |-> FALSE, sub |-> None, iat |-> now], JWT_SECRET, JWT_ALG)

create_token(email, now) ==
    jwt_encode([hasSub |-> TRUE, sub |-> email, iat |-> now], JWT_SECRET, JWT_ALG)

NoPayload == [hasSub |-> FALSE, sub |-> None, iat |-> 0]

\* token = None (no token given), and a string that is no JWT at all
NoToken == [kind |-> "none", payload |-> NoPayload, sig |-> Sign(NoPayload, "", "")]
Garbage == [kind |-> "garbage", payload |-> NoPayload, sig |-> Sign(NoPayload, "", "")]

\* jwt.decode(token, JWT_SECRET, algorithms=[JWT_ALG]): TRUE iff it raises no JWTError
jwt_decodes(token) ==
    /\ token.kind = "jwt"
    /\ token.sig = Sign(token.payload, JWT_SECRET, JWT_ALG)

\* payload.get("sub") of a decoded token
payload_sub(token) == IF token.payload.hasSub THEN token.payload.sub ELSE None

----------------------------------------------------------------------------
(* Document store adapter.  A collection is the sequence of its documents  *)
(* in insertion order.                                                     *)

\* `db is None`
DbNone == None
Database == "Database"

\* create_document(collection_name, data): appends one document
create_document(collection, doc) == Append(collection, doc)

RECURSIVE FirstMatch(_, _, _)
FirstMatch(collection, email, i) ==
    IF i > Len(collection) THEN <<>>
    ELSE IF collection[i].email = email THEN <<collection[i]>>
    ELSE FirstMatch(collection, email, i + 1)

\* db["user"].find_one({"email": email}): <<doc>> for the first match, <<>> for None
find_one(collection, email) == FirstMatch(collection, email, 1)

\* {"$group": {"_id": "$type", "count": {"$sum": 1}}}
CountOfType(collection, type) ==
    Cardinality({i \in 1..Len(collection) : collection[i].type = type})

Group(collection) ==
    {[_id |-> collection[i].type, count |-> CountOfType(collection, collection[i].type)] :
        i \in 1..Len(collection)}

\* {"$sort": {"count": -1}}, {"$limit": n}: every order of the rows that is
\* descending in count (rows of equal count come in any order), cut after n rows.
RECURSIVE SortLimit(_, _)
SortLimit(rows, n) ==
    IF rows = {} \/ n = 0 THEN {<<>>}
    ELSE LET top == {r \in rows : \A q \in rows : q.count <= r.count}
         IN  UNION {{<<r>> \o rest : rest \in SortLimit(rows \ {r}, n - 1)} : r \in top}

\* mutant: the pipeline without its $limit stage
aggregate_unlimited(collection) ==
    SortLimit(Group(collection), Cardinality(Group(collection)))

\* db["event"].aggregate(pipeline): the set of result lists the store may return
aggregate(collection) == SortLimit(Group(collection), LIMIT)

----------------------------------------------------------------------------
(* Requests and responses *)

AuthRequest(email, password) == [email |-> email, password |-> password]
EventIn(type, properties) == [type |-> type, properties |-> properties]

HTTPException(status_code, detail) ==
    [status |-> status_code, body |-> [detail |-> detail]]
Ok(body) == [status |-> 200, body |-> body]

\* a request that has not answered yet
NoResponse == [status |-> 0, body |-> [detail |-> None]]

\* the `authorization` parameter: None, or a string split at its first blank
NoAuthorization == [given |-> FALSE, scheme |-> "", token |-> NoToken]
Authorization(scheme, token) == [given |-> TRUE, scheme |-> scheme, token |-> token]
Bearer(token) == Authorization("Bearer ", token)

----------------------------------------------------------------------------
(* Handlers.  Each gives the response, the calls it made in order, and the *)
(* collection it leaves.                                                   *)

\* mutant: no unique email check
register_check_unchecked(dbv, us, payload) ==
    IF dbv = DbNone
    THEN [resp |-> HTTPException(500, "Database not configured"),
          calls |-> <<>>, passed |-> FALSE]
    ELSE [resp |-> NoResponse, calls |-> <<>>, passed |-> TRUE]

\* register, lines 80-84: store check and unique email check
register_check(dbv, us, payload) ==
    IF dbv = DbNone
    THEN [resp |-> HTTPException(500, "Database not configured"),
          calls |-> <<>>, passed |-> FALSE]
    ELSE IF find_one(us, payload.email) # <<>>
    THEN [resp |-> HTTPException(400, "Email already registered"),
          calls |-> <<"find_one">>, passed |-> FALSE]
    ELSE [resp |-> NoResponse, calls |-> <<"find_one">>, passed |-> TRUE]

\* mutant: the insert replaces a document that has the email (an upsert)
register_insert_upsert(us, payload, salt, now) ==
    LET user_doc == [email |-> payload.email, name |-> None,
                     password_hash |-> hash_password(payload.password, salt)]
        kept == SelectSeq(us, LAMBDA d : d.email # payload.email)
    IN  [resp |-> Ok([token |-> create_token(payload.email, now),
                      email |-> payload.email, name |-> None]),
         calls |-> <<"hash_password", "create_document", "create_token">>,
         users |-> Append(kept, user_doc)]

\* register, lines 85-88: hash, insert, issue the token
register_insert(us, payload, salt, now) ==
    LET user_doc == [email |-> payload.email, name |-> None,
                     password_hash |-> hash_password(payload.password, salt)]
    IN  [resp |-> Ok([token |-> create_token(payload.email, now),
                      email |-> payload.email, name |-> None]),
         calls |-> <<"hash_password", "create_document", "create_token">>,
         users |-> create_document(us, user_doc)]

\* mutant: a message of its own for an email that is not registered
login_telling(dbv, us, payload, now) ==
    IF dbv = DbNone
    THEN [resp |-> HTTPException(500, "Database not configured"), calls |-> <<>>]
    ELSE LET user == find_one(us, payload.email)
         IN  IF user = <<>>
             THEN [resp |-> HTTPException(401, "User not found"),
                   calls |-> <<"find_one">>]
             ELSE IF ~verify_password(payload.password, user[1].password_hash)
             THEN [resp |-> HTTPException(401, "Invalid credentials"),
                   calls |-> <<"find_one", "verify_password">>]
             ELSE [resp |-> Ok([token |-> create_token(payload.email, now),
                                email |-> payload.email, name |-> user[1].name]),
                   calls |-> <<"find_one", "verify_password", "create_token">>]

\* mutant: the response is built from the stored document, hash included
login_exposing(dbv, us, payload, now) ==
    IF dbv = DbNone
    THEN [resp |-> HTTPException(500, "Database not configured"), calls |-> <<>>]
    ELSE LET user == find_one(us, payload.email)
         IN  IF user = <<>> \/ ~verify_password(payload.password, user[1].password_hash)
             THEN [resp |-> HTTPException(401, "Invalid credentials"),
                   calls |-> <<"find_one">>]
             ELSE [resp |-> Ok([token |-> create_token(payload.email, now),
                                email |-> payload.email,
                                name |-> user[1].password_hash]),
                   calls |-> <<"find_one", "verify_password", "create_token">>]

login(dbv, us, payload, now) ==
    IF dbv = DbNone
    THEN [resp |-> HTTPException(500, "Database not configured"), calls |-> <<>>]
    ELSE LET user == find_one(us, payload.email)
         IN  IF user = <<>>
             THEN [resp |-> HTTPException(401, "Invalid credentials"),
                   calls |-> <<"find_one">>]
             ELSE IF ~verify_password(payload.password, user[1].password_hash)
             THEN [resp |-> HTTPException(401, "Invalid credentials"),
                   calls |-> <<"find_one", "verify_password">>]
             ELSE [resp |-> Ok([token |-> create_token(payload.email, now),
                                email |-> payload.email, name |-> user[1].name]),
                   calls |-> <<"find_one", "verify_password", "create_token">>]

\* mutant: a bearer token that does not verify fails the request
track_event_strict(dbv, ev, event, authorization) ==
    IF dbv = DbNone
    THEN [resp |-> HTTPException(500, "Database not configured"),
          calls |-> <<>>, events |-> ev]
    ELSE LET bearer == authorization.given /\ authorization.scheme = "Bearer "
             email == IF bearer /\ jwt_decodes(authorization.token)
                      THEN payload_sub(authorization.token)
                      ELSE None
             data == [user_id |-> IF Truthy(email) THEN email ELSE "anonymous",
                      type |-> event.type,
                      properties |-> IF event.properties = None THEN "{}"
                                     ELSE event.properties]
         IN  IF bearer /\ ~jwt_decodes(authorization.token)
             THEN [resp |-> HTTPException(401, "Invalid token"),
                   calls |-> <<"jwt.decode">>, events |-> ev]
             ELSE [resp |-> Ok([status |-> "ok"]),
                   calls |-> (IF bearer THEN <<"jwt.decode">> ELSE <<>>)
                             \o <<"create_document">>,
                   events |-> create_document(ev, data)]

track_event(dbv, ev, event, authorization) ==
    IF dbv = DbNone
    THEN [resp |-> HTTPException(500, "Database not configured"),
          calls |-> <<>>, events |-> ev]
    ELSE LET bearer == authorization.given /\ authorization.scheme = "Bearer "
             email == IF bearer /\ jwt_decodes(authorization.token)
                      THEN payload_sub(authorization.token)
                      ELSE None
             data == [user_id |-> IF Truthy(email) THEN email ELSE "anonymous",
                      type |-> event.type,
                      properties |-> IF event.properties = None THEN "{}"
                                     ELSE event.properties]
         IN  [resp |-> Ok([status |-> "ok"]),
              calls |-> (IF bearer THEN <<"jwt.decode">> ELSE <<>>) \o <<"create_document">>,
              events |-> create_document(ev, data)]

RECURSIVE SumCounts(_)
SumCounts(results) ==
    IF results = <<>> THEN 0 ELSE Head(results).count + SumCounts(Tail(results))

\* mutant: no check of the store handle
analytics_summary_unguarded(dbv, results, authorization) ==
    LET summary == [i \in 1..Len(results) |->
                       [type |-> results[i]._id, count |-> results[i].count]]
    IN  [resp |-> Ok([total |-> SumCounts(summary), byType |-> summary]),
         calls |-> <<"aggregate">>]

\* `results` is the list the aggregation returned
analytics_summary(dbv, results, authorization) ==
    IF dbv = DbNone
    THEN [resp |-> HTTPException(500, "Database not configured"), calls |-> <<>>]
    ELSE LET summary == [i \in 1..Len(results) |->
                            [type |-> results[i]._id, count |-> results[i].count]]
             total == SumCounts(summary)
         IN  [resp |-> Ok([total |-> total, byType |-> summary]),
              calls |-> <<"aggregate">>]

\* Line 65 tests `if db`, the truth value of the handle, not `db is None`.
\* The handle comes from the database module: a pymongo Database raises
\* NotImplementedError on bool(), another handle may be truthy.  `truth` is
\* that outcome, "truthy" or "raises"; the error is no JWTError and leaves
\* the dependency as an internal server error.
get_current_user(dbv, us, token, truth) ==
    IF token.kind = "none"
    THEN [resp |-> HTTPException(401, "Missing token"), calls |-> <<>>]
    ELSE IF ~jwt_decodes(token)
    THEN [resp |-> HTTPException(401, "Invalid token"), calls |-> <<"jwt.decode">>]
    ELSE LET email == payload_sub(token)
         IN  IF ~Truthy(email)
             THEN [resp |-> HTTPException(401, "Invalid token"),
                   calls |-> <<"jwt.decode">>]
             ELSE IF dbv = DbNone
             THEN [resp |-> HTTPException(401, "User not found"),
                   calls |-> <<"jwt.decode">>]
             ELSE IF truth = "raises"
             THEN [resp |-> HTTPException(500, "Internal Server Error"),
                   calls |-> <<"jwt.decode">>]
             ELSE LET found == find_one(us, email)
                  IN  IF found = <<>>
                      THEN [resp |-> HTTPException(401, "User not found"),
                            calls |-> <<"jwt.decode", "find_one">>]
                      ELSE [resp |-> [status |-> 0, body |-> [user |-> found[1]]],
                            calls |-> <<"jwt.decode", "find_one">>]

\* seq[:n]
Take(seq, n) == SubSeq(seq, 1, IF Len(seq) < n THEN Len(seq) ELSE n)

root == [resp |-> Ok([message |-> "SaaS Analytics Backend Running"]), calls |-> <<>>]

\* `listing` is the outcome of db.list_collection_names(): "ok" or "error";
\* url and name tell whether DATABASE_URL and DATABASE_NAME are set.
test_database(dbv, us, ev, listing, url, name) ==
    LET collections == (IF us # <<>> THEN <<"user">> ELSE <<>>)
                       \o (IF ev # <<>> THEN <<"event">> ELSE <<>>)
        working == dbv # DbNone /\ listing = "ok"
    IN  [resp |-> Ok([backend |-> "Running",
                      database |-> IF dbv = DbNone THEN "Available but not initialized"
                                   ELSE IF listing = "ok" THEN "Connected & Working"
                                   ELSE "Connected but Error",
                      database_url |-> IF url THEN "Set" ELSE "Not Set",
                      database_name |-> IF name THEN "Set" ELSE "Not Set",
                      connection_status |-> IF dbv = DbNone THEN "Not Connected"
                                            ELSE "Connected",
                      collections |-> IF working THEN Take(collections, 10)
                                      ELSE <<>>]),
         calls |-> IF dbv = DbNone THEN <<>> ELSE <<"list_collection_names">>]

----------------------------------------------------------------------------
(* Inputs of the requests *)

\* request bodies of POST /events: without and with properties
EventIns == {EventIn("click", None), EventIn("view", "{k: 1}")}

payloadA == [hasSub |-> TRUE, sub |-> "a@x.com", iat |-> 0]
payloadB == [hasSub |-> TRUE, sub |-> "b@x.com", iat |-> 0]

\* tokens the server issues for a subject, and tokens it never issued
IssuedTokens == {create_token(s, 0) : s \in Subjects} \cup {create_token("a@x.com", 1)}
ForeignTokens ==
    { jwt_encode(payloadA, "attacker-key", JWT_ALG),                    \* wrong key
      jwt_encode(payloadA, JWT_SECRET, "none"),                         \* wrong algorithm
      [kind |-> "jwt", payload |-> payloadB,
       sig |-> Sign(payloadA, JWT_SECRET, JWT_ALG)],                    \* tampered payload
      jwt_encode(NoPayload, JWT_SECRET, JWT_ALG),                       \* signed, no sub claim
      Garbage }
Tokens == IssuedTokens \cup ForeignTokens

Authorizations ==
    {NoAuthorization} \cup {Bearer(t) : t \in Tokens}
        \cup {Authorization("Basic ", create_token("a@x.com", 0))}

----------------------------------------------------------------------------
(* State *)

Idle == [busy |-> FALSE, payload |-> AuthRequest("", "")]
Busy(payload) == [busy |-> TRUE, payload |-> payload]

InFlight == Cardinality({p \in Procs : reg[p].busy})

\* documents stored or about to be stored
DocCount == Len(users) + Len(events) + InFlight

Step(op, req, out) == [op |-> op, req |-> req, calls |-> out.calls, resp |-> out.resp]

Init ==
    /\ db \in {DbNone, Database}
    /\ users = <<>>
    /\ events = <<>>
    /\ reg = [p \in Procs |-> Idle]
    /\ registered = {}
    /\ last = [op |-> "start", req |-> AuthRequest("", ""), calls |-> <<>>,
               resp |-> NoResponse]

----------------------------------------------------------------------------
(* Actions *)

\* POST /auth/register up to the unique email check (lines 80-84)
RegisterCheck(p, payload) ==
    LET out == register_check(db, users, payload)
    IN  /\ ~reg[p].busy
        /\ out.passed => DocCount < MaxDocs
        /\ reg' = IF out.passed THEN [reg EXCEPT ![p] = Busy(payload)] ELSE reg
        /\ last' = Step("register_check", payload, out)
        /\ UNCHANGED <<db, users, events, registered>>

\* POST /auth/register from hash_password to the response (lines 85-88)
RegisterInsert(p, salt, now) ==
    LET payload == reg[p].payload
        out == register_insert(users, payload, salt, now)
    IN  /\ reg[p].busy
        /\ users' = out.users
        /\ reg' = [reg EXCEPT ![p] = Idle]
        /\ registered' = IF out.resp.status = 200
                         THEN registered \cup {<<payload.email, payload.password>>}
                         ELSE registered
        /\ last' = Step("register", payload, out)
        /\ UNCHANGED <<db, events>>

\* POST /auth/login
Login(payload, now) ==
    /\ last' = Step("login", payload, login(db, users, payload, now))
    /\ UNCHANGED <<db, users, events, reg, registered>>

\* POST /events
TrackEvent(event, authorization) ==
    LET out == track_event(db, events, event, authorization)
    IN  /\ out.events # events => DocCount < MaxDocs
        /\ events' = out.events
        /\ last' = Step("track_event", [event |-> event, authorization |-> authorization], out)
        /\ UNCHANGED <<db, users, reg, registered>>

\* GET /analytics/summary
AnalyticsSummary(authorization) ==
    /\ \E results \in (IF db = DbNone THEN {<<>>} ELSE aggregate(events)) :
          last' = Step("analytics_summary", [authorization |-> authorization],
                       analytics_summary(db, results, authorization))
    /\ UNCHANGED <<db, users, events, reg, registered>>

\* the get_current_user dependency
GetCurrentUser(token, truth) ==
    /\ last' = Step("get_current_user", [token |-> token],
                    get_current_user(db, users, token, truth))
    /\ UNCHANGED <<db, users, events, reg, registered>>

\* GET /
Root ==
    /\ last' = Step("root", [authorization |-> NoAuthorization], root)
    /\ UNCHANGED <<db, users, events, reg, registered>>

\* GET /test
TestDatabase(listing, url, name) ==
    /\ last' = Step("test", [authorization |-> NoAuthorization],
                    test_database(db, users, events, listing, url, name))
    /\ UNCHANGED <<db, users, events, reg, registered>>

Next ==
    \/ \E p \in Procs, e \in Emails, pw \in Passwords : RegisterCheck(p, AuthRequest(e, pw))
    \/ \E p \in Procs, salt \in Salts, now \in Times : RegisterInsert(p, salt, now)
    \/ \E e \in Emails, pw \in Passwords, now \in Times : Login(AuthRequest(e, pw), now)
    \/ \E event \in EventIns, a \in Authorizations : TrackEvent(event, a)
    \/ \E a \in {NoAuthorization, Bearer(create_token("a@x.com", 0))} : AnalyticsSummary(a)
    \/ \E t \in Tokens \cup {NoToken}, truth \in {"truthy", "raises"} : GetCurrentUser(t, truth)
    \/ Root
    \/ \E listing \in {"ok", "error"}, url \in BOOLEAN, name \in BOOLEAN :
          TestDatabase(listing, url, name)

Spec == Init /\ [][Next]_vars

----------------------------------------------------------------------------
(* Properties *)

IsPrefix(s, t) == Len(s) <= Len(t) /\ SubSeq(t, 1, Len(s)) = s

StoreHandlers == {"register_check", "register", "login", "track_event", "analytics_summary"}

\* C1: the user collection holds at most one User document per email, under
\* any interleaving of the requests.
C1_OneUserPerEmail ==
    \A i, j \in 1..Len(users) : users[i].email = users[j].email => i = j

\* C2: a register for an email that already has a User document answers
\* 400 'Email already registered', hashes nothing, inserts nothing, issues no
\* token and leaves the user collection as it was, whatever the password.
C2_DuplicateRegisterRejected ==
    [][ (last'.op = "register_check" /\ \E i \in 1..Len(users) : users[i].email = last'.req.email)
        => /\ last'.resp = HTTPException(400, "Email already registered")
           /\ last'.calls = <<"find_one">>
           /\ users' = users
           /\ reg' = reg
           /\ registered' = registered ]_vars

C2_Witness ==
    /\ last.op = "register_check"
    /\ last.resp.status = 400
    /\ \E i \in 1..Len(users) :
          /\ users[i].email = last.req.email
          /\ ~verify_password(last.req.password, users[i].password_hash)

\* C3: once register(email, password) returned 200, every later login with
\* that email and password returns 200 with a token for that email; and login
\* returns 200 only if the document find_one returns verifies the password.
C3_LoginAfterRegister ==
    last.op = "login" =>
        /\ <<last.req.email, last.req.password>> \in registered
              => /\ last.resp.status = 200
                 /\ last.resp.body.token.payload.sub = last.req.email
        /\ last.resp.status = 200
              => /\ find_one(users, last.req.email) # <<>>
                 /\ verify_password(last.req.password,
                                    find_one(users, last.req.email)[1].password_hash)

\* C4: a login for an unregistered email and a login with a wrong password
\* get the same answer, 401 'Invalid credentials', with no token issued and
\* the store unchanged.
LoginFails(us, payload) ==
    \/ \A i \in 1..Len(us) : us[i].email # payload.email
    \/ \E i \in 1..Len(us) :
          /\ us[i].email = payload.email
          /\ \A j \in 1..(i - 1) : us[j].email # payload.email
          /\ ~verify_password(payload.password, us[i].password_hash)

\* C4: both failures of login answer 401 'Invalid credentials'.
C4_SameUnauthorized ==
    [][ (last'.op = "login" /\ db # DbNone /\ LoginFails(users, last'.req))
        => /\ last'.resp = HTTPException(401, "Invalid credentials")
           /\ \A i \in 1..Len(last'.calls) : last'.calls[i] # "create_token"
           /\ users' = users
           /\ events' = events ]_vars

C4_Witness ==
    /\ last.op = "login"
    /\ last.resp.status = 401
    /\ \E i \in 1..Len(users) : users[i].email = last.req.email
    /\ \E e \in Emails : \A i \in 1..Len(users) : users[i].email # e

\* what the claims call a validly signed token, and its subject
ValidlySigned(token) ==
    token.kind = "jwt" /\ token.sig = [key |-> JWT_SECRET, alg |-> JWT_ALG, over |-> token.payload]
SubjectOf(token) == IF token.payload.hasSub THEN token.payload.sub ELSE None

PresentsBearer(authorization) == authorization.given /\ authorization.scheme = "Bearer "

StoredEvent(event, user_id) ==
    [user_id |-> user_id, type |-> event.type,
     properties |-> IF event.properties = None THEN "{}" ELSE event.properties]

\* C5 as stated: with the store available every track_event answers
\* {status: ok} and inserts one Event whose user_id is the token's subject for
\* a validly signed bearer token and 'anonymous' otherwise, never empty.
C5_Original ==
    [][ (last'.op = "track_event" /\ db # DbNone)
        => LET a == last'.req.authorization
               user_id == IF PresentsBearer(a) /\ ValidlySigned(a.token)
                          THEN SubjectOf(a.token) ELSE "anonymous"
           IN  /\ last'.resp = Ok([status |-> "ok"])
               /\ events' = Append(events, StoredEvent(last'.req.event, user_id))
               /\ events'[Len(events')].user_id # "" ]_vars

\* C5 amended: the user_id is the token's subject for a validly signed bearer
\* token whose sub claim is present and not empty, and 'anonymous' in every
\* other case, a validly signed token with no or an empty subject included.
C5_EventUserId ==
    [][ (last'.op = "track_event" /\ db # DbNone)
        => LET a == last'.req.authorization
               named == /\ PresentsBearer(a)
                        /\ ValidlySigned(a.token)
                        /\ SubjectOf(a.token) \notin {None, ""}
               user_id == IF named THEN SubjectOf(a.token) ELSE "anonymous"
           IN  /\ last'.resp = Ok([status |-> "ok"])
               /\ events' = Append(events, StoredEvent(last'.req.event, user_id))
               /\ events'[Len(events')].user_id # "" ]_vars

C5_Witness ==
    /\ last.op = "track_event"
    /\ last.resp.status = 200
    /\ Len(events) = 2
    /\ events[1].user_id = "anonymous"
    /\ events[2].user_id = "b@x.com"

\* C7: with db None, register, login, track_event and analytics_summary
\* answer 500 'Database not configured' before any store call, hashing,
\* verification or token issue, and nothing is ever stored.
C7_StoreNotConfigured ==
    db = DbNone =>
        /\ last.op \in StoreHandlers
              => /\ last.resp = HTTPException(500, "Database not configured")
                 /\ last.calls = <<>>
        /\ users = <<>>
        /\ events = <<>>
        /\ InFlight = 0
        /\ registered = {}

C7_Witness ==
    /\ db = DbNone
    /\ last.op = "track_event"
    /\ last.resp.status = 500

\* C8 as stated: for every subject s, the empty string included, a
\* track_event carrying 'Bearer ' + create_token(s) stores user_id = s and
\* get_current_user does not reject create_token(s) as 'Invalid token'.
RoundTrip(subjects) ==
    /\ \A s \in subjects, t \in Times :
          /\ jwt_decodes(create_token(s, t))
          /\ payload_sub(create_token(s, t)) = s
    /\ \A s \in subjects, t \in Times :
          (/\ last.op = "track_event"
           /\ db # DbNone
           /\ last.req.authorization = Bearer(create_token(s, t)))
             => events[Len(events)].user_id = s
    /\ \A s \in subjects, t \in Times :
          (last.op = "get_current_user" /\ last.req.token = create_token(s, t))
             => last.resp # HTTPException(401, "Invalid token")

\* C8 as stated, over every subject.
C8_Original == RoundTrip(Subjects)

\* C8 amended: the round trip holds for every subject that is not the empty
\* string; for the empty subject track_event stores 'anonymous' and
\* get_current_user answers 401 'Invalid token'.
C8_TokenRoundTrip ==
    /\ RoundTrip(Subjects \ {""})
    /\ \A t \in Times :
          (/\ last.op = "track_event"
           /\ db # DbNone
           /\ last.req.authorization = Bearer(create_token("", t)))
             => events[Len(events)].user_id = "anonymous"
    /\ \A t \in Times :
          (last.op = "get_current_user" /\ last.req.token = create_token("", t))
             => last.resp = HTTPException(401, "Invalid token")

C8_Witness ==
    /\ last.op = "track_event"
    /\ last.req.authorization = Bearer(create_token("a@x.com", 1))
    /\ events # <<>>
    /\ events[Len(events)].user_id = "a@x.com"
    /\ users = <<>>

\* C10: stored documents are never modified or removed; the user collection
\* grows only by one document in a register that answers 200, the event
\* collection only by one document in a track_event that answers 200; login,
\* analytics_summary, get_current_user and every failing request change nothing.
C10_AppendOnly ==
    [][ /\ IsPrefix(users, users')
        /\ IsPrefix(events, events')
        /\ users' # users
              => /\ last'.op = "register"
                 /\ last'.resp.status = 200
                 /\ Len(users') = Len(users) + 1
                 /\ events' = events
        /\ events' # events
              => /\ last'.op = "track_event"
                 /\ last'.resp.status = 200
                 /\ Len(events') = Len(events) + 1
                 /\ users' = users
        /\ (last' # last /\ last'.op = "register" /\ last'.resp.status = 200)
              => Len(users') = Len(users) + 1
        /\ (last' # last /\ last'.op = "track_event" /\ last'.resp.status = 200)
              => Len(events') = Len(events) + 1
        /\ (last'.op \in {"login", "analytics_summary", "get_current_user"}
              \/ last'.resp.status # 200)
              => users' = users /\ events' = events ]_vars

C10_Witness ==
    /\ Len(users) = 2
    /\ users[1].email = users[2].email
    /\ last.op = "register"

\* C9: no response of an endpoint carries a stored password_hash or a
\* plaintext password; register and login answer with token, email and name
\* only; and two stores that differ only in password_hash values get the same
\* response to every request, but for login answering 200 in one and 401 in
\* the other.
Endpoints == {"register_check", "register", "login", "track_event",
              "analytics_summary", "root", "test"}

Range(f) == {f[i] : i \in DOMAIN f}

\* every string a response carries
ResponseStrings(op, resp) ==
    IF resp.status # 200 THEN {resp.body.detail}
    ELSE CASE op \in {"register", "login"} ->
                {resp.body.email, resp.body.name, resp.body.token.payload.sub}
           [] op = "track_event" -> {resp.body.status}
           [] op = "analytics_summary" -> {row.type : row \in Range(resp.body.byType)}
           [] op = "root" -> {resp.body.message}
           [] op = "test" ->
                {resp.body.backend, resp.body.database, resp.body.database_url,
                 resp.body.database_name, resp.body.connection_status}
                    \cup Range(resp.body.collections)

Secrets ==
    {users[i].password_hash : i \in 1..Len(users)}
        \cup {pair[2] : pair \in registered}
        \cup (IF last.op \in {"register_check", "register", "login"}
              THEN {last.req.password} ELSE {})

AllHashes == {hash_password(p, salt) : p \in Passwords, salt \in Salts}

\* the user collections that differ from us in password_hash values only
HashVariants(us) ==
    {[i \in 1..Len(us) |-> [us[i] EXCEPT !.password_hash = h[i]]] :
        h \in [1..Len(us) -> AllHashes]}

SameResponses(dbv, us1, us2, ev) ==
    /\ \A e \in Emails, pw \in Passwords :
          /\ register_check(dbv, us1, AuthRequest(e, pw)).resp
                = register_check(dbv, us2, AuthRequest(e, pw)).resp
          /\ \A now \in Times :
                LET r1 == login(dbv, us1, AuthRequest(e, pw), now).resp
                    r2 == login(dbv, us2, AuthRequest(e, pw), now).resp
                IN  r1 # r2 => {r1.status, r2.status} = {200, 401}
          /\ \A now \in Times, salt \in Salts :
                register_insert(us1, AuthRequest(e, pw), salt, now).resp
                   = register_insert(us2, AuthRequest(e, pw), salt, now).resp
    /\ \A listing \in {"ok", "error"}, url \in BOOLEAN, name \in BOOLEAN :
          test_database(dbv, us1, ev, listing, url, name).resp
             = test_database(dbv, us2, ev, listing, url, name).resp

\* Every content of the store is first reached at the start or by a register
\* or a track_event, so the comparison over the store is made in those states.

StoreJustWritten == last.op \in {"start", "register", "track_event"}

\* C9: no secret in a response, and responses do not depend on stored hashes.
C9_NoHashInResponses ==
    /\ last.op \in Endpoints
          => /\ ResponseStrings(last.op, last.resp) \cap Secrets = {}
             /\ (last.op \in {"register", "login"} /\ last.resp.status = 200)
                   => /\ DOMAIN last.resp.body = {"token", "email", "name"}
                      /\ DOMAIN last.resp.body.token.payload = {"hasSub", "sub", "iat"}
    /\ StoreJustWritten
          => \A us2 \in HashVariants(users) : SameResponses(db, users, us2, events)

C9_Witness ==
    /\ last.op = "login"
    /\ last.resp.status = 200
    /\ Len(users) = 2
    /\ users[1].email # users[2].email

----------------------------------------------------------------------------
(* The analytics summary over larger event collections.  The collections   *)
(* are built by posting events through track_event: for k types, type i is *)
(* posted Count(shape, k, i) times, followed by up to MaxExtra more events *)
(* of any type.                                                            *)

TypeName(i) == CASE i = 1 -> "click" [] i = 2 -> "view" [] OTHER -> "t" \o ToString(i)
SummaryTypes == {TypeName(i) : i \in 1..NumTypes}

\* "down": k, k-1, ..., 1 events; "ramp": 1, 2, ..., k-1, k-1 events (a tie at the top)
Shapes == {"down", "ramp"}
Count(shape, k, i) ==
    IF shape = "down" THEN k - i + 1 ELSE IF i < k \/ k = 1 THEN i ELSE k - 1

\* ev after n posts of an event of the type, without a token
Post(ev, type, n) ==
    ev \o [j \in 1..n |->
              track_event(Database, <<>>, EventIn(type, None), NoAuthorization).events[1]]

RECURSIVE Fill(_, _, _)
Fill(shape, k, i) ==
    IF i = 0 THEN <<>> ELSE Post(Fill(shape, k, i - 1), TypeName(i), Count(shape, k, i))

RECURSIVE Extend(_, _)
Extend(collections, n) ==
    IF n = 0 THEN collections
    ELSE collections \cup
         Extend({Post(ev, type, 1) : ev \in collections, type \in SummaryTypes}, n - 1)

SummaryCollections ==
    Extend({Fill(shape, k, k) : shape \in Shapes, k \in 0..NumTypes}, MaxExtra)

InitSummary ==
    /\ db = Database
    /\ users = <<>>
    /\ events \in SummaryCollections
    /\ reg = [p \in Procs |-> Idle]
    /\ registered = {}
    /\ last = [op |-> "start", req |-> AuthRequest("", ""), calls |-> <<>>,
               resp |-> NoResponse]

NextSummary ==
    \E a \in {NoAuthorization, Bearer(create_token("a@x.com", 0))} : AnalyticsSummary(a)

SpecSummary == InitSummary /\ [][NextSummary]_vars

\* C6: analytics_summary returns at most 10 entries, each the number of
\* stored events of its type, being the types with the highest counts in
\* descending order of count; total is the sum of the returned counts, equal
\* to the number of stored events exactly when at most 10 types are stored
\* and smaller otherwise (3 'click' and 1 'view': {click: 3, view: 1}, total 4).
StoredTypes == {events[i].type : i \in 1..Len(events)}
StoredOfType(type) == Cardinality({i \in 1..Len(events) : events[i].type = type})

RECURSIVE SumOfEntries(_, _)
SumOfEntries(byType, n) == IF n = 0 THEN 0 ELSE byType[n].count + SumOfEntries(byType, n - 1)

\* C6: the summary is the top ten types by count and total sums them.
C6_SummaryTopTen ==
    (last.op = "analytics_summary" /\ last.resp.status = 200) =>
        LET byType == last.resp.body.byType
            total == last.resp.body.total
            n == Len(byType)
            returned == {byType[i].type : i \in 1..n}
        IN  /\ n <= 10
            /\ n = IF Cardinality(StoredTypes) < 10 THEN Cardinality(StoredTypes) ELSE 10
            /\ \A i \in 1..n : byType[i].count = StoredOfType(byType[i].type)
            /\ \A i, j \in 1..n : i # j => byType[i].type # byType[j].type
            /\ \A i, j \in 1..n : i < j => byType[i].count >= byType[j].count
            /\ returned \subseteq StoredTypes
            /\ \A type \in StoredTypes \ returned :
                  \A i \in 1..n : byType[i].count >= StoredOfType(type)
            /\ total = SumOfEntries(byType, n)
            /\ (total = Len(events)) <=> (Cardinality(StoredTypes) <= 10)
            /\ total <= Len(events)
            /\ (StoredTypes = {"click", "view"} /\ StoredOfType("click") = 3
                   /\ StoredOfType("view") = 1)
                  => /\ byType = <<[type |-> "click", count |-> 3],
                                   [type |-> "view", count |-> 1]>>
                     /\ total = 4

C6_Witness ==
    /\ last.op = "analytics_summary"
    /\ last.resp.status = 200
    /\ Cardinality(StoredTypes) > 10
    /\ Len(last.resp.body.byType) = 10
    /\ last.resp.body.total < Len(events)
    /\ \E i \in 1..9 : last.resp.body.byType[i].count = last.resp.body.byType[i + 1].count

====
